---- MODULE Spec2Model ----
(***************************************************************************)
(* Model of improved_network.py: CSV row ingestion (create_network_graph), *)
(* taxonomy parsing (create_taxonomy) and graph construction (build_graph).*)
(*                                                                         *)
(* Text fields are sequences of one-character strings.  Python floats are  *)
(* IEEE-754 binary64 values; the ones the program computes (averages,      *)
(* similarity) are modelled exactly as fixed-point numbers of four limbs   *)
(* of 27 bits: <<a, b, c, d>> stands for                                   *)
(*     (a*2^81 + b*2^54 + c*2^27 + d) / 2^81,                              *)
(* and every arithmetic result is rounded to 53 significant bits, ties to  *)
(* even, as the hardware does.  The representation is exact for values in  *)
(* [2^-28, 2^27), which covers every value the bounded inputs produce.     *)
(***************************************************************************)
EXTENDS Integers, Sequences, FiniteSets, TLC

(***************************************************************************)
(* Bounds                                                                  *)
(***************************************************************************)
MaxRows == 2

MaxSimRows == 6

(***************************************************************************)
(* binary64 arithmetic                                                     *)
(***************************************************************************)
LimbBits == 27

LimbBase == 2 ^ LimbBits

FracBits == 3 * LimbBits

MantissaBits == 53

BigZero == <<0, 0, 0, 0>>

FlFromInt(n) == <<n, 0, 0, 0>>

\* Limb j of x, counted from the least significant limb (j = 0).
Limb(x, j) == x[4 - j]

BigLess(x, y) ==
    \E i \in 1..4 : x[i] < y[i] /\ \A k \in 1..(i - 1) : x[k] = y[k]

BigSub(x, y) ==
    LET d0 == x[4] - y[4]
        b0 == IF d0 < 0 THEN 1 ELSE 0
        d1 == x[3] - y[3] - b0
        b1 == IF d1 < 0 THEN 1 ELSE 0
        d2 == x[2] - y[2] - b1
        b2 == IF d2 < 0 THEN 1 ELSE 0
    IN  <<x[1] - y[1] - b2, d2 + b2 * LimbBase, d1 + b1 * LimbBase, d0 + b0 * LimbBase>>

BigAdd(x, y) ==
    LET s0 == x[4] + y[4]
        s1 == x[3] + y[3] + (s0 \div LimbBase)
        s2 == x[2] + y[2] + (s1 \div LimbBase)
    IN  <<x[1] + y[1] + (s2 \div LimbBase), s2 % LimbBase, s1 % LimbBase, s0 % LimbBase>>

BigPow2(k) ==
    [i \in 1..4 |->
        LET j == 4 - i
        IN  IF k \div LimbBits = j THEN 2 ^ (k % LimbBits) ELSE 0]

BigLowBits(x, k) ==
    [i \in 1..4 |->
        LET j == 4 - i
        IN  IF k >= LimbBits * (j + 1) THEN x[i]
            ELSE IF k <= LimbBits * j THEN 0
            ELSE x[i] % (2 ^ (k - LimbBits * j))]

\* x * 2^k (the product fits four limbs).
BigShl(x, k) ==
    LET q == k \div LimbBits
        r == k % LimbBits
        src(j) == IF j < 0 THEN 0 ELSE Limb(x, j)
    IN  [i \in 1..4 |->
            LET j == 4 - i
            IN  (src(j - q) % (2 ^ (LimbBits - r))) * (2 ^ r)
                + (src(j - q - 1) \div (2 ^ (LimbBits - r)))]

BigBit(x, k) == (Limb(x, k \div LimbBits) \div (2 ^ (k % LimbBits))) % 2

RECURSIVE Log2(_)
Log2(n) == IF n <= 1 THEN 0 ELSE 1 + Log2(n \div 2)

\* Index of the most significant set bit of x # BigZero.
BigMsb(x) ==
    LET i == CHOOSE i \in 1..4 : x[i] # 0 /\ \A k \in 1..(i - 1) : x[k] = 0
    IN  LimbBits * (4 - i) + Log2(x[i])

\* Round to 53 significant bits, ties to even; sticky tells that the exact
\* value lies strictly above x.
Round53(x, sticky) ==
    IF x = BigZero THEN x
    ELSE LET drop == BigMsb(x) - (MantissaBits - 1)
         IN  IF drop <= 0 THEN x
             ELSE LET low  == BigLowBits(x, drop)
                      half == BigPow2(drop - 1)
                      up   == \/ BigLess(half, low)
                              \/ low = half /\ (sticky \/ BigBit(x, drop) = 1)
                      base == BigSub(x, low)
                  IN  IF up THEN BigAdd(base, BigPow2(drop)) ELSE base

\* One step of binary long division: the next quotient bit of rem / y.
DivStep(st, y) ==
    LET r2  == BigAdd(st.rem, st.rem)
        bit == IF BigLess(r2, y) THEN 0 ELSE 1
    IN  [rem |-> IF bit = 1 THEN BigSub(r2, y) ELSE r2,
         quo |-> BigAdd(BigAdd(st.quo, st.quo), <<0, 0, 0, bit>>)]

\* k steps of binary long division of st.rem / y, appended to the quotient
\* st.quo; once the remainder is zero the remaining quotient bits are zero.
RECURSIVE DivBits(_, _, _)
DivBits(st, y, k) ==
    IF k = 0 THEN [quo |-> st.quo, sticky |-> st.rem # BigZero]
    ELSE LET next == DivStep(st, y)
         IN  IF next.rem = BigZero
             THEN [quo |-> BigShl(next.quo, k - 1), sticky |-> FALSE]
             ELSE DivBits(next, y, k - 1)

\* int / int true division (t >= 0, 0 < n, n * LimbBase within the integers):
\* short division, one limb of the quotient at a time.
FlDivInt(t, n) ==
    LET r0 == t % n
        r1 == (r0 * LimbBase) % n
        r2 == (r1 * LimbBase) % n
        r3 == (r2 * LimbBase) % n
    IN  Round53(<<t \div n, (r0 * LimbBase) \div n, (r1 * LimbBase) \div n,
                  (r2 * LimbBase) \div n>>, r3 # 0)

\* float / float for 0 <= x <= y, y > 0.
FlDiv(x, y) ==
    IF x = y THEN FlFromInt(1)
    ELSE LET r == DivBits([rem |-> x, quo |-> BigZero], y, FracBits)
         IN  Round53(r.quo, r.sticky)

\* float - float for x >= y.
FlSub(x, y) == Round53(BigSub(x, y), FALSE)

FlAbsDiff(x, y) == IF BigLess(x, y) THEN FlSub(y, x) ELSE FlSub(x, y)

FlMax(x, y) == IF BigLess(x, y) THEN y ELSE x

(***************************************************************************)
(* Text: str.strip, str.split, int                                         *)
(***************************************************************************)
Whitespace == {" ", "\n"}

Digits == {"0", "1", "2", "3", "4", "5", "6", "7", "8", "9"}

DigitVal(c) ==
    CASE c = "0" -> 0 [] c = "1" -> 1 [] c = "2" -> 2 [] c = "3" -> 3
      [] c = "4" -> 4 [] c = "5" -> 5 [] c = "6" -> 6 [] c = "7" -> 7
      [] c = "8" -> 8 [] c = "9" -> 9

\* str.strip(): drop leading and trailing whitespace.
Strip(s) ==
    LET keep == {i \in 1..Len(s) : s[i] \notin Whitespace}
    IN  IF keep = {} THEN <<>>
        ELSE LET first == CHOOSE i \in keep : \A k \in keep : i <= k
                 last  == CHOOSE i \in keep : \A k \in keep : k <= i
             IN  SubSeq(s, first, last)

\* str.split(sep) for a one-character separator: the pieces between the
\* occurrences of sep, empty pieces included.
Split(s, sep) ==
    LET cuts  == {i \in 1..Len(s) : s[i] = sep}
        \* the k-th piece runs from after the (k-1)-th cut to before the k-th
        cut(k) == IF k = 0 THEN 0
                  ELSE IF k > Cardinality(cuts) THEN Len(s) + 1
                  ELSE CHOOSE i \in cuts : Cardinality({c \in cuts : c < i}) = k - 1
    IN  [k \in 1..(Cardinality(cuts) + 1) |-> SubSeq(s, cut(k - 1) + 1, cut(k) - 1)]

RECURSIVE DecimalValue(_)
DecimalValue(s) ==
    IF s = <<>> THEN 0
    ELSE 10 * DecimalValue(SubSeq(s, 1, Len(s) - 1)) + DigitVal(s[Len(s)])

\* As IntParses, but the empty text is taken for an integer.
IntParsesEmpty(s) ==
    LET t == Strip(s)
    IN  \A i \in 1..Len(t) : t[i] \in Digits

\* int(text): surrounding whitespace is ignored, the rest must be a
\* non-empty run of decimal digits; anything else raises ValueError.
\* (Signs and digit-group underscores do not occur in the modelled alphabet.)
IntParses(s) ==
    LET t == Strip(s)
    IN  t # <<>> /\ \A i \in 1..Len(t) : t[i] \in Digits

IntOf(s) == DecimalValue(Strip(s))

(***************************************************************************)
(* create_taxonomy                                                         *)
(***************************************************************************)
\* dict: output[number] = mod
DictPut(d, k, v) == [x \in DOMAIN d \cup {k} |-> IF x = k THEN v ELSE d[x]]

EmptyDict == [x \in {} |-> 0]

\* The body of the loop over the lines: a line is used when, stripped, it
\* is longer than 4 characters and its first character is a digit.
TaxonomyLine(output, rawline) ==
    LET line == Strip(rawline)
    IN  IF Len(line) > 4 /\ IntParses(<<line[1]>>)
        THEN DictPut(output, IntOf(<<line[1]>>), Strip(SubSeq(line, 5, Len(line))))
        ELSE output

RECURSIVE TaxonomyLines(_, _)
TaxonomyLines(output, lines) ==
    IF lines = <<>> THEN output
    ELSE TaxonomyLines(TaxonomyLine(output, Head(lines)), Tail(lines))

create_taxonomy(taxonomy_str) ==
    TaxonomyLines(EmptyDict, Split(Strip(taxonomy_str), "\n"))

(***************************************************************************)
(* CSV rows offered to the ingestor                                        *)
(***************************************************************************)
\* "1. - A", "2. - B", "3. - C"
TaxonomyABC ==
    <<"1", ".", " ", "-", " ", "A", "\n",
      "2", ".", " ", "-", " ", "B", "\n",
      "3", ".", " ", "-", " ", "C">>

\* leading blank line, "2. - B", a line that does not start with a digit,
\* a line that is too short, "1. - D" with trailing whitespace
TaxonomyBD ==
    <<"\n", "2", ".", " ", "-", " ", "B", "\n",
      "x", ".", " ", "-", " ", "C", "\n",
      "3", ".", " ", "-", "\n",
      " ", "1", ".", " ", "-", " ", "D", " ", "\n">>

PostNumberTexts == {<<"1">>, <<"2">>}

LikesTexts == {<<"0">>, <<"7", "0">>, <<"1", "0", "0">>, <<"1", "0", "0", "0">>}

PatternTexts ==
    { <<"1">>, <<" ", "3">>,
      <<"1", ",", " ", "2">>, <<"2", ",", "3">>, <<"1", ",", "1">>,
      <<"2", ",", "x">>, <<"x">> }

WellFormedRows ==
    { [post_number |-> p, caption |-> <<"c">>, url |-> <<"u">>, likes |-> l,
       hashtags |-> <<"2">>, patterns |-> c, taxonomy |-> t] :
        p \in PostNumberTexts, l \in LikesTexts, c \in PatternTexts,
        t \in {TaxonomyABC, TaxonomyBD} }

\* Rows with one required numeric field that is not an integer.
BadNumberRows ==
    LET good == [post_number |-> <<"1">>, caption |-> <<"c">>, url |-> <<"u">>,
                 likes |-> <<"7", "0">>, hashtags |-> <<"2">>,
                 patterns |-> <<"1">>, taxonomy |-> TaxonomyBD]
    IN  { [good EXCEPT !.post_number = <<"x">>],
          [good EXCEPT !.likes = <<"7", "x">>],
          [good EXCEPT !.hashtags = <<>>] }

RowInputs == WellFormedRows \cup BadNumberRows

\* Rows of single-category posts: post 1 (which carries the taxonomy) in
\* category 1, post 2 in category 2.
SimRowInputs ==
    { [post_number |-> <<"1">>, caption |-> <<"c">>, url |-> <<"u">>, likes |-> l,
       hashtags |-> <<"2">>, patterns |-> <<"1">>, taxonomy |-> TaxonomyABC] :
        l \in {<<"0">>, <<"7", "7">>} }
    \cup
    { [post_number |-> <<"2">>, caption |-> <<"c">>, url |-> <<"u">>, likes |-> l,
       hashtags |-> <<"2">>, patterns |-> <<"2">>, taxonomy |-> <<>>] :
        l \in {<<"0">>, <<"1", "1", "0">>} }

(***************************************************************************)
(* State                                                                   *)
(***************************************************************************)
VARIABLES
    taxonomy,          \* dict: category id -> name
    posts_by_cluster,  \* defaultdict(list): category id -> post numbers
    cluster_stats,     \* defaultdict: category id -> likes, hashtags, posts
    post_data,         \* dict: post number -> record
    row_count,         \* rows read so far
    skipped_rows,      \* indices of the rows abandoned in the except handler
    taxonomy_calls,    \* number of calls of create_taxonomy so far
    pc,                \* "reading", "built" (build_graph returned), "raised"
    G                  \* the graph of build_graph: nodes and edges

vars == <<taxonomy, posts_by_cluster, cluster_stats, post_data, row_count,
          skipped_rows, taxonomy_calls, pc, G>>

EmptyGraph == [nodes |-> EmptyDict, edges |-> EmptyDict]

Init ==
    /\ taxonomy = EmptyDict
    /\ posts_by_cluster = EmptyDict
    /\ cluster_stats = EmptyDict
    /\ post_data = EmptyDict
    /\ row_count = 0
    /\ skipped_rows = {}
    /\ taxonomy_calls = 0
    /\ pc = "reading"
    /\ G = EmptyGraph

(***************************************************************************)
(* create_network_graph: one iteration of the loop over the rows           *)
(***************************************************************************)
\* The three int() conversions at the head of the try block.
NumbersParse(row) ==
    /\ IntParses(row.post_number)
    /\ IntParses(row.likes)
    /\ IntParses(row.hashtags)

HasComma(s) == \E i \in 1..Len(s) : s[i] = ","

\* The comma branch: every part that parses, in order; the others are
\* dropped with a warning.
RECURSIVE ParsedParts(_)
ParsedParts(parts) ==
    IF parts = <<>> THEN <<>>
    ELSE IF IntParses(Head(parts))
         THEN <<IntOf(Head(parts))>> \o ParsedParts(Tail(parts))
         ELSE ParsedParts(Tail(parts))

\* The single-value branch raises ValueError (and the row is abandoned by
\* `continue`) when the stripped text is not an integer.
ClustersParse(cluster_str) == HasComma(cluster_str) \/ IntParses(cluster_str)

ClustersOf(cluster_str) ==
    IF HasComma(cluster_str) THEN ParsedParts(Split(cluster_str, ","))
    ELSE <<IntOf(cluster_str)>>

\* defaultdict: d[k].append(v)
AppendTo(d, k, v) == DictPut(d, k, IF k \in DOMAIN d THEN Append(d[k], v) ELSE <<v>>)

EmptyStats == [likes |-> <<>>, hashtags |-> <<>>, posts |-> <<>>]

\* As StatsAppend, with likes and hashtags appended to each other's list.
StatsAppendSwapped(d, k, likes, hashtags, post_num) ==
    LET old == IF k \in DOMAIN d THEN d[k] ELSE EmptyStats
    IN  DictPut(d, k, [likes    |-> Append(old.likes, hashtags),
                       hashtags |-> Append(old.hashtags, likes),
                       posts    |-> Append(old.posts, post_num)])

StatsAppend(d, k, likes, hashtags, post_num) ==
    LET old == IF k \in DOMAIN d THEN d[k] ELSE EmptyStats
    IN  DictPut(d, k, [likes    |-> Append(old.likes, likes),
                       hashtags |-> Append(old.hashtags, hashtags),
                       posts    |-> Append(old.posts, post_num)])

\* As UpdatePosts, but the first category of the row is passed over.
UpdatePostsSkipFirst(d, clusters, post_num) ==
    LET RECURSIVE rest(_, _)
        rest(dd, cs) == IF cs = <<>> THEN dd
                        ELSE rest(AppendTo(dd, Head(cs), post_num), Tail(cs))
    IN  IF clusters = <<>> THEN d ELSE rest(d, Tail(clusters))

\* for cluster in clusters: append to both accumulators
RECURSIVE UpdatePosts(_, _, _)
UpdatePosts(d, clusters, post_num) ==
    IF clusters = <<>> THEN d
    ELSE UpdatePosts(AppendTo(d, Head(clusters), post_num), Tail(clusters), post_num)

RECURSIVE UpdateStats(_, _, _, _, _)
UpdateStats(d, clusters, likes, hashtags, post_num) ==
    IF clusters = <<>> THEN d
    ELSE UpdateStats(StatsAppend(d, Head(clusters), likes, hashtags, post_num),
                     Tail(clusters), likes, hashtags, post_num)

\* if post_num == 1: taxonomy = create_taxonomy(row["taxonomy"])
ParsesTaxonomy(post_num) == post_num = 1

IngestRow(row) ==
    /\ pc = "reading"
    /\ row_count' = row_count + 1
    /\ UNCHANGED <<pc, G>>
    /\ IF ~NumbersParse(row)
       THEN \* ValueError before anything is stored
            /\ skipped_rows' = skipped_rows \cup {row_count'}
            /\ UNCHANGED <<taxonomy, posts_by_cluster, cluster_stats, post_data,
                           taxonomy_calls>>
       ELSE LET post_num    == IntOf(row.post_number)
                cluster_str == Strip(row.patterns)
                likes       == IntOf(row.likes)
                hashtags    == IntOf(row.hashtags)
                clusters    == IF ClustersParse(cluster_str)
                               THEN ClustersOf(cluster_str) ELSE <<>>
            IN  /\ UNCHANGED skipped_rows
                /\ post_data' = DictPut(post_data, post_num,
                                    [caption  |-> row.caption,
                                     url      |-> row.url,
                                     likes    |-> likes,
                                     hashtags |-> hashtags,
                                     clusters |-> clusters])
                /\ IF ParsesTaxonomy(post_num)
                   THEN /\ taxonomy' = create_taxonomy(row.taxonomy)
                        /\ taxonomy_calls' = taxonomy_calls + 1
                   ELSE UNCHANGED <<taxonomy, taxonomy_calls>>
                /\ posts_by_cluster' = UpdatePosts(posts_by_cluster, clusters, post_num)
                /\ cluster_stats' = UpdateStats(cluster_stats, clusters, likes,
                                                hashtags, post_num)

\* The file has at most MaxRows rows.
ReadRow == row_count < MaxRows /\ \E row \in RowInputs : IngestRow(row)

ReadSimRow == row_count < MaxSimRows /\ \E row \in SimRowInputs : IngestRow(row)

(***************************************************************************)
(* build_graph                                                             *)
(***************************************************************************)
RECURSIVE Sum(_)
Sum(s) == IF s = <<>> THEN 0 ELSE Head(s) + Sum(Tail(s))

\* set(list)
ToSet(s) == {s[i] : i \in 1..Len(s)}

\* list(set): every element once.  Python leaves the order of iteration
\* of a set open; the model lists the elements in ascending order.
RECURSIVE ToList(_)
ToList(S) ==
    IF S = {} THEN <<>>
    ELSE LET m == CHOOSE x \in S : \A y \in S : x <= y
         IN  <<m>> \o ToList(S \ {m})

\* As IsNode, but a category with a single post is passed over.
IsNodeSeveralPosts(tax, posts, cluster_id) ==
    /\ cluster_id \in DOMAIN tax
    /\ cluster_id \in DOMAIN posts
    /\ Len(posts[cluster_id]) > 1

\* Only categories of the taxonomy that have posts become nodes.
IsNode(tax, posts, cluster_id) == cluster_id \in DOMAIN tax /\ cluster_id \in DOMAIN posts

NodeAttributes(tax, posts, stats, cluster_id) ==
    LET total_likes    == Sum(stats[cluster_id].likes)
        total_hashtags == Sum(stats[cluster_id].hashtags)
    IN  [label          |-> tax[cluster_id],
         posts_count    |-> Len(posts[cluster_id]),
         total_likes    |-> total_likes,
         avg_likes      |-> IF stats[cluster_id].likes # <<>>
                            THEN FlDivInt(total_likes, Len(stats[cluster_id].likes))
                            ELSE BigZero,
         total_hashtags |-> total_hashtags,
         avg_hashtags   |-> IF stats[cluster_id].hashtags # <<>>
                            THEN FlDivInt(total_hashtags, Len(stats[cluster_id].hashtags))
                            ELSE BigZero,
         posts          |-> posts[cluster_id]]

GraphNodes(tax, posts, stats) ==
    [c \in {c \in DOMAIN tax \cup DOMAIN posts : IsNode(tax, posts, c)} |->
        NodeAttributes(tax, posts, stats, c)]

\* The unordered pairs of distinct nodes: clusters[i], clusters[j] with i < j.
NodePairs(nodes) == {{c1, c2} : c1, c2 \in DOMAIN nodes} \ {{c} : c \in DOMAIN nodes}

\* As SharedPosts, with the union in place of the intersection.
SharedPostsUnion(posts, pair) ==
    LET c1 == CHOOSE c \in pair : TRUE
        c2 == CHOOSE c \in pair : c # c1
    IN  ToSet(posts[c1]) \cup ToSet(posts[c2])

SharedPosts(posts, pair) ==
    LET c1 == CHOOSE c \in pair : TRUE
        c2 == CHOOSE c \in pair : c # c1
    IN  ToSet(posts[c1]) \cap ToSet(posts[c2])

DirectAttributes(shared_posts) ==
    [weight |-> FlFromInt(Cardinality(shared_posts)), shared_posts |-> ToList(shared_posts)]

\* The first pass over the pairs, on a graph without edges.
DirectEdges(nodes, posts) ==
    [pair \in {p \in NodePairs(nodes) : SharedPosts(posts, p) # {}} |->
        DirectAttributes(SharedPosts(posts, pair))]

\* nx.is_connected for a graph with at least one node: every node is
\* reachable from some one node.
RECURSIVE Reachable(_, _)
Reachable(seen, edges) ==
    LET more == seen \cup UNION {pair \in DOMAIN edges : pair \cap seen # {}}
    IN  IF more = seen THEN seen ELSE Reachable(more, edges)

is_connected(nodes, edges) ==
    LET start == CHOOSE c \in DOMAIN nodes : TRUE
    IN  Reachable({start}, edges) = DOMAIN nodes

\* As NeedsRepair, without the connectivity test.
NeedsRepairAlways(nodes, edges) == Cardinality(DOMAIN nodes) > 1

\* not nx.is_connected(G) and len(G.nodes()) > 1
NeedsRepair(nodes, edges) ==
    ~is_connected(nodes, edges) /\ Cardinality(DOMAIN nodes) > 1

similarity_threshold == FlDivInt(7, 10)

\* similarity = 1 - abs(avg1 - avg2) / max(avg1, avg2, 1)
Similarity(avg1, avg2) ==
    LET max_avg == FlMax(FlMax(avg1, avg2), FlFromInt(1))
    IN  FlSub(FlFromInt(1), FlDiv(FlAbsDiff(avg1, avg2), max_avg))

PairSimilarity(nodes, pair) ==
    LET c1 == CHOOSE c \in pair : TRUE
        c2 == CHOOSE c \in pair : c # c1
    IN  Similarity(nodes[c1].avg_likes, nodes[c2].avg_likes)

SimilarityAttributes(similarity) ==
    [weight |-> FlDivInt(1, 2), similarity |-> similarity, edge_type |-> "similarity"]

\* As has_edge, but no edge is ever found.
has_edge_never(edges, pair) == FALSE

has_edge(edges, pair) == pair \in DOMAIN edges

\* if not G.has_edge(...): ... if similarity > similarity_threshold:
AddsSimilarityEdge(nodes, edges, pair) ==
    /\ ~has_edge(edges, pair)
    /\ BigLess(similarity_threshold, PairSimilarity(nodes, pair))

\* G.add_edge(u, v, **attr): new attributes are merged into those the edge
\* already has.
MergedAttributes(edges, pair, attr) ==
    IF pair \in DOMAIN edges THEN attr @@ edges[pair] ELSE attr

\* The second pass over the pairs.
RepairEdges(nodes, edges) ==
    [pair \in DOMAIN edges \cup {p \in NodePairs(nodes) : AddsSimilarityEdge(nodes, edges, p)} |->
        IF AddsSimilarityEdge(nodes, edges, pair)
        THEN MergedAttributes(edges, pair, SimilarityAttributes(PairSimilarity(nodes, pair)))
        ELSE edges[pair]]

\* nx.is_connected raises NetworkXPointlessConcept on a graph without nodes.
ConnectivityRaises(nodes) == DOMAIN nodes = {}

build_graph ==
    /\ pc = "reading"
    /\ UNCHANGED <<taxonomy, posts_by_cluster, cluster_stats, post_data,
                   row_count, skipped_rows, taxonomy_calls>>
    /\ LET nodes  == GraphNodes(taxonomy, posts_by_cluster, cluster_stats)
           direct == DirectEdges(nodes, posts_by_cluster)
       IN  IF ConnectivityRaises(nodes)
           THEN /\ pc' = "raised"
                /\ G' = G
           ELSE /\ pc' = "built"
                /\ G' = [nodes |-> nodes,
                         edges |-> IF NeedsRepair(nodes, direct)
                                   THEN RepairEdges(nodes, direct)
                                   ELSE direct]

Next == ReadRow \/ build_graph

Spec == Init /\ [][Next]_vars

NextSim == ReadSimRow \/ build_graph

SpecSim == Init /\ [][NextSim]_vars

(***************************************************************************)
(* Properties                                                              *)
(***************************************************************************)
\* The edges of the returned graph by kind.
SharedEdges == {e \in DOMAIN G.edges : "shared_posts" \in DOMAIN G.edges[e]}

SimilarityEdges == {e \in DOMAIN G.edges : "similarity" \in DOMAIN G.edges[e]}

\* The returned graph with its shared-post edges only.
SharedEdgeGraph == [e \in SharedEdges |-> G.edges[e]]

\* The post ids two nodes of the returned graph have in common.
CommonPosts(pair) ==
    LET c1 == CHOOSE c \in pair : TRUE
        c2 == CHOOSE c \in pair : c # c1
    IN  {p \in ToSet(G.nodes[c1].posts) : p \in ToSet(G.nodes[c2].posts)}

\* C1: the nodes of the returned graph are exactly the category ids that
\* are keys of the taxonomy and have at least one accumulated post, and
\* every node has posts_count >= 1.
C1_NodesAreTaxonomyCategoriesWithPosts ==
    pc = "built" =>
        /\ DOMAIN G.nodes =
               {c \in DOMAIN taxonomy :
                   c \in DOMAIN posts_by_cluster /\ Len(posts_by_cluster[c]) >= 1}
        /\ \A c \in DOMAIN G.nodes : G.nodes[c].posts_count >= 1

\* A graph was returned that leaves out a taxonomy category without posts
\* and a category with posts that the taxonomy does not name.
C1_Witness ==
    /\ pc = "built"
    /\ DOMAIN taxonomy \ DOMAIN G.nodes # {}
    /\ DOMAIN posts_by_cluster \ DOMAIN taxonomy # {}

\* C2: in the returned graph two distinct nodes whose post-id sets
\* intersect are joined by an edge whose weight is the size of the
\* intersection and whose shared_posts, as a set, is the intersection; no
\* edge with shared_posts joins two nodes with disjoint post-id sets; also
\* when a post id occurs several times in a post list.
C2_SharedEdgeIsIntersection ==
    pc = "built" =>
        \A pair \in NodePairs(G.nodes) :
            IF CommonPosts(pair) # {}
            THEN /\ pair \in SharedEdges
                 /\ G.edges[pair].weight = FlFromInt(Cardinality(CommonPosts(pair)))
                 /\ ToSet(G.edges[pair].shared_posts) = CommonPosts(pair)
                 /\ Len(G.edges[pair].shared_posts) = Cardinality(CommonPosts(pair))
            ELSE pair \notin SharedEdges

\* A shared-post edge ends in a node whose post list repeats a post id.
C2_Witness ==
    /\ pc = "built"
    /\ \E pair \in SharedEdges : \E c \in pair :
           Len(G.nodes[c].posts) > Cardinality(ToSet(G.nodes[c].posts))

\* C3: build_graph never raises; with no category both in the taxonomy and
\* in the accumulators it returns the empty graph.
C3_BuildGraphNeverRaises == pc # "raised"

\* C4: a row whose category field has no comma and is not an integer leaves
\* the post map, the taxonomy and the accumulators as they were.
C4_UnparsableCategoryRowChangesNothing ==
    [][\A row \in RowInputs :
         (~HasComma(row.patterns) /\ ~IntParses(row.patterns) /\ IngestRow(row))
             => UNCHANGED <<post_data, taxonomy, posts_by_cluster, cluster_stats>>]_vars

C6_RepairOnlyWhenDisconnected ==
    pc = "built" =>
        /\ SimilarityEdges # {} =>
               /\ Cardinality(DOMAIN G.nodes) > 1
               /\ ~is_connected(G.nodes, SharedEdgeGraph)
        /\ (Cardinality(DOMAIN G.nodes) = 1 \/ is_connected(G.nodes, SharedEdgeGraph)) =>
               /\ SimilarityEdges = {}
               /\ G.edges = SharedEdgeGraph

\* A connected graph was returned in which two nodes with similar average
\* likes are not adjacent.
C6_Witness ==
    /\ pc = "built"
    /\ Cardinality(DOMAIN G.nodes) > 1
    /\ is_connected(G.nodes, SharedEdgeGraph)
    /\ \E pair \in NodePairs(G.nodes) :
           /\ pair \notin DOMAIN G.edges
           /\ BigLess(similarity_threshold, PairSimilarity(G.nodes, pair))

\* C7: every edge of the returned graph joins two distinct nodes and
\* carries exactly one of the two payloads: shared_posts, with an integer
\* weight >= 1 and exactly as the first pass set it, or similarity, with
\* edge_type "similarity" and weight 0.5.
C7_EdgeKindsExclusive ==
    pc = "built" =>
        \A e \in DOMAIN G.edges :
            /\ e \in NodePairs(G.nodes)
            /\ (e \in SharedEdges) # (e \in SimilarityEdges)
            /\ e \in SharedEdges =>
                   /\ DOMAIN G.edges[e] = {"weight", "shared_posts"}
                   /\ G.edges[e].weight = FlFromInt(Cardinality(CommonPosts(e)))
                   /\ Cardinality(CommonPosts(e)) >= 1
                   /\ G.edges[e].shared_posts = ToList(CommonPosts(e))
            /\ e \in SimilarityEdges =>
                   /\ DOMAIN G.edges[e] = {"weight", "similarity", "edge_type"}
                   /\ G.edges[e].edge_type = "similarity"
                   /\ G.edges[e].weight = FlDivInt(1, 2)

\* The repair pass ran on a graph that has a shared-post edge between two
\* nodes with similar average likes, and added a similarity edge elsewhere.
C7_Witness ==
    /\ pc = "built"
    /\ SimilarityEdges # {}
    /\ \E e \in SharedEdges : BigLess(similarity_threshold, PairSimilarity(G.nodes, e))

\* The repair pass ran: more than one node, shared-post edges not connected.
RepairRan ==
    /\ pc = "built"
    /\ Cardinality(DOMAIN G.nodes) > 1
    /\ ~is_connected(G.nodes, SharedEdgeGraph)

Max(a, b) == IF a < b THEN b ELSE a

Abs(a) == IF a < 0 THEN -a ELSE a

\* 1 - |a1 - a2| / max(a1, a2, 1) > 7/10 for the exact averages
\* a1 = t1/n1, a2 = t2/n2, cleared of fractions.
ExactSimilarityAboveThreshold(pair) ==
    LET c1 == CHOOSE c \in pair : TRUE
        c2 == CHOOSE c \in pair : c # c1
        t1 == G.nodes[c1].total_likes
        n1 == G.nodes[c1].posts_count
        t2 == G.nodes[c2].total_likes
        n2 == G.nodes[c2].posts_count
    IN  10 * Abs(t1 * n2 - t2 * n1) < 3 * Max(Max(t1 * n2, t2 * n1), n1 * n2)

\* C8: when the repair pass runs, two nodes without a shared-post edge are
\* joined by a similarity edge exactly when
\* 1 - |avg1 - avg2| / max(avg1, avg2, 1) > 0.7; a pair at exactly 0.7 is
\* not joined.
C8_SimilarityEdgeIffAboveThreshold ==
    RepairRan =>
        \A pair \in NodePairs(G.nodes) \ SharedEdges :
            (pair \in SimilarityEdges) <=> ExactSimilarityAboveThreshold(pair)

\* C9: create_taxonomy is called at most once and the taxonomy never
\* changes after it has been built.
C9_TaxonomyBuiltOnce ==
    [][taxonomy_calls >= 1 =>
          (taxonomy_calls' = taxonomy_calls /\ taxonomy' = taxonomy)]_vars

\* The category ids that were given at least one post during ingestion.
CategoriesWithPosts ==
    {c \in DOMAIN cluster_stats : Len(cluster_stats[c].posts) >= 1}

\* C10 (as stated): a category id is a node of the returned graph if and
\* only if it was given at least one post during ingestion.
C10_NodeIffHasPosts ==
    pc = "built" =>
        \A c \in DOMAIN taxonomy \cup DOMAIN cluster_stats :
            c \in DOMAIN G.nodes <=> c \in CategoriesWithPosts

\* C10 (amended): a category id is a node of the returned graph if and only
\* if it is a key of the taxonomy and was given at least one post during
\* ingestion.
C10_NodeIffInTaxonomyAndHasPosts ==
    pc = "built" =>
        \A c \in DOMAIN taxonomy \cup DOMAIN cluster_stats :
            c \in DOMAIN G.nodes <=> (c \in DOMAIN taxonomy /\ c \in CategoriesWithPosts)

\* A graph with nodes was returned although a category that was given
\* posts is missing from the taxonomy.
C10_Witness ==
    /\ pc = "built"
    /\ CategoriesWithPosts \ DOMAIN taxonomy # {}
    /\ CategoriesWithPosts \cap DOMAIN taxonomy # {}

\* The positions of post number p in the accumulator of category c.
Occurrences(p, c) ==
    IF c \in DOMAIN cluster_stats
    THEN {i \in 1..Len(cluster_stats[c].posts) : cluster_stats[c].posts[i] = p}
    ELSE {}

InPostList(p, c) == c \in DOMAIN posts_by_cluster /\ p \in ToSet(posts_by_cluster[c])

\* The likes and hashtag counts accumulated at position i of category c are
\* those of the stored record of post p.
AccumulatedAsStored(p, c, i) ==
    /\ cluster_stats[c].likes[i] = post_data[p].likes
    /\ cluster_stats[c].hashtags[i] = post_data[p].hashtags

AllCategoryIds == DOMAIN posts_by_cluster \cup DOMAIN cluster_stats \cup DOMAIN taxonomy

\* Every row that was stored has a post number of its own.
NoPostNumberRepeats ==
    row_count - Cardinality(skipped_rows) = Cardinality(DOMAIN post_data)

\* C11 (as stated): after any sequence of rows, repeated post numbers
\* included, post p is in the post list of category c if and only if c is
\* in the category list of the stored record of p, and what was accumulated
\* for p under c are the likes and hashtag counts of the stored record.
C11_PostMapAgreesWithAccumulators ==
    \A p \in DOMAIN post_data : \A c \in AllCategoryIds :
        /\ InPostList(p, c) <=> c \in ToSet(post_data[p].clusters)
        /\ \A i \in Occurrences(p, c) : AccumulatedAsStored(p, c, i)

\* C11 (amended): a category of the stored record of p always has p in its
\* post list, with the stored likes and hashtag counts at the last
\* occurrence of p; when no post number repeats the converse holds too and
\* every occurrence carries the stored likes and hashtag counts.
C11_PostMapAgreesUnlessRepeated ==
    \A p \in DOMAIN post_data : \A c \in AllCategoryIds :
        /\ c \in ToSet(post_data[p].clusters) =>
               /\ InPostList(p, c)
               /\ Occurrences(p, c) # {}
               /\ \A i \in Occurrences(p, c) :
                      (\A k \in Occurrences(p, c) : k <= i) => AccumulatedAsStored(p, c, i)
        /\ NoPostNumberRepeats =>
               /\ InPostList(p, c) <=> c \in ToSet(post_data[p].clusters)
               /\ Occurrences(p, c) = {i \in Occurrences(p, c) : AccumulatedAsStored(p, c, i)}
        /\ \A q \in ToSet(IF c \in DOMAIN posts_by_cluster THEN posts_by_cluster[c] ELSE <<>>) :
               q \in DOMAIN post_data

\* Two rows with different post numbers and different likes were stored
\* and put a post each into one and the same category.
C11_Witness ==
    /\ NoPostNumberRepeats
    /\ \E c \in DOMAIN cluster_stats :
           /\ Cardinality(ToSet(cluster_stats[c].posts)) = 2
           /\ Cardinality(ToSet(cluster_stats[c].likes)) = 2

====
